---- MODULE Spec2Model ----
(***************************************************************************)
(* Svelte Docs search extension (src/src/search-docs.tsx and its variants): *)
(* the segmenter parseDocsText, the keyword extractor extractKeywords and   *)
(* the substring ranker getMatchScore / filteredSections of Command.         *)
(*                                                                           *)
(* A JavaScript string is modelled as a sequence of characters; a character  *)
(* is a one-symbol TLA+ string.  Library functions (toLowerCase, trim,       *)
(* split, join, includes, startsWith, replace, sort) are operators that      *)
(* compute what the library computes on the ASCII characters used here.      *)
(***************************************************************************)
EXTENDS Integers, Sequences, FiniteSets, TLC

VARIABLES
  text,             \* parseDocsText: the document text handed to the segmenter
  parsed,           \* parseDocsText: the sections it returned
  parsePc,          \* "input" | "main" | "sub": which segmenter has run
  title,            \* extractKeywords: the title handed to it
  keywords,         \* extractKeywords: the array it returned
  url,              \* generateUrl: the URL it returned for the title
  kwPc,             \* "input" | "done" | "url": which function has run
  remoteDocs,       \* Command: the text served at DOCS_URL
  argsQuery,        \* Command: args.query (<<>> when absent)
  data,             \* Command: useFetch data, <<>> (undefined) or <<text>>
  cache,            \* Command: cache entry 'svelte-docs', <<>> or <<text>>
  sections,         \* Command: useState sections
  searchText,       \* Command: useState searchText
  isLoading,        \* Command: useState isLoading
  filteredSections, \* Command: the list computed by the last render
  cmdPc,            \* Command: "mounting" | "fetching" | "ready"
  typeTitle,        \* detectType: the title handed to it
  typeContent,      \* detectType: the content handed to it
  detectedType,     \* detectType: the category it returned
  typePc,           \* "input" | "content" | "title": which detectType has run
  cacheExpiry,      \* Command (fuzzy variant): cache entry 'svelte-docs-expiry'
  now,              \* Command (fuzzy variant): Date.now()
  showDetail,       \* Command (fuzzy variant): useState showDetail
  selectedItemId,   \* Command (fuzzy variant): useState selectedItemId
  hasAutoSelected,  \* Command (fuzzy variant): useState hasAutoSelected
  effectDue,        \* Command (fuzzy variant): the auto-select effect is to run
  listChanged,      \* history: "no", or what has given a new list since the
                    \* auto-select effect ran last: "load" (the first load of
                    \* the documents), "reload" (a later one) or "search" (an
                    \* accepted search text)
  lastLoad,         \* history: <<>> or what the last loadDocs that parsed a
                    \* text saw: the branch, the time and both cache entries
  execute,          \* Command (fuzzy variant): the option execute of useFetch
                    \* at the last render
  event             \* history: <<>> or, when the last step was the work of
                    \* a handler of the user's, <<"search", text>> or
                    \* <<"refresh">>

parseVars == <<text, parsed, parsePc>>
kwVars    == <<title, keywords, url, kwPc>>
cmdVars   == <<remoteDocs, argsQuery, data, cache, sections, searchText,
               isLoading, filteredSections, cmdPc>>
typeVars  == <<typeTitle, typeContent, detectedType, typePc>>
selVars   == <<cacheExpiry, now, showDetail, selectedItemId, hasAutoSelected,
               effectDue, listChanged, lastLoad, execute, event>>
vars      == <<text, parsed, parsePc, title, keywords, url, kwPc, remoteDocs,
               argsQuery, data, cache, sections, searchText, isLoading,
               filteredSections, cmdPc, typeTitle, typeContent, detectedType,
               typePc, cacheExpiry, now, showDetail, selectedItemId,
               hasAutoSelected, effectDue, listChanged, lastLoad, execute, event>>

----------------------------------------------------------------------------
(* Characters *)

NL  == "\n"
TAB == "\t"
SP  == " "
BQ  == "backquote"   \* the character U+0060

Uppers == <<"A","B","C","D","E","F","G","H","I","J","K","L","M",
            "N","O","P","Q","R","S","T","U","V","W","X","Y","Z">>
Lowers == <<"a","b","c","d","e","f","g","h","i","j","k","l","m",
            "n","o","p","q","r","s","t","u","v","w","x","y","z">>
Digits == {"0","1","2","3","4","5","6","7","8","9"}

LowerSet == {Lowers[i] : i \in 1..Len(Lowers)}

\* the characters matched by \s and removed by String.prototype.trim
IsSpace(c) == c \in {SP, TAB, NL}

SetMin(S) == CHOOSE x \in S : \A y \in S : x <= y
SetMax(S) == CHOOSE x \in S : \A y \in S : x >= y

----------------------------------------------------------------------------
(* String library *)

\* the lower-case letter of every upper-case letter
LowerOf ==
  [c \in {Uppers[i] : i \in 1..Len(Uppers)} |->
     Lowers[CHOOSE i \in 1..Len(Uppers) : Uppers[i] = c]]

lowerChar(c) == IF c \in DOMAIN LowerOf THEN LowerOf[c] ELSE c

toLowerCase(s) == [i \in 1..Len(s) |-> lowerChar(s[i])]

trim(s) ==
  LET keep == {i \in 1..Len(s) : ~IsSpace(s[i])}
  IN  IF keep = {} THEN <<>> ELSE SubSeq(s, SetMin(keep), SetMax(keep))

startsWith(s, p) == Len(s) >= Len(p) /\ SubSeq(s, 1, Len(p)) = p

includes(s, q) ==
  \E i \in 0..(Len(s) - Len(q)) : SubSeq(s, i + 1, i + Len(q)) = q

substring(s, from) == SubSeq(s, from + 1, Len(s))

RECURSIVE splitFrom(_, _, _, _)
splitFrom(s, sep, i, cur) ==
  IF i > Len(s) THEN <<cur>>
  ELSE IF s[i] = sep THEN <<cur>> \o splitFrom(s, sep, i + 1, <<>>)
  ELSE splitFrom(s, sep, i + 1, Append(cur, s[i]))

split(s, sep) == splitFrom(s, sep, 1, <<>>)

RECURSIVE join(_, _)
join(parts, sep) ==
  IF parts = <<>> THEN <<>>
  ELSE IF Len(parts) = 1 THEN parts[1]
  ELSE parts[1] \o <<sep>> \o join(Tail(parts), sep)

RECURSIVE replaceAll(_, _, _)
replaceAll(s, pat, rep) ==
  IF s = <<>> THEN <<>>
  ELSE IF startsWith(s, pat)
    THEN rep \o replaceAll(SubSeq(s, Len(pat) + 1, Len(s)), pat, rep)
  ELSE <<s[1]>> \o replaceAll(Tail(s), pat, rep)

----------------------------------------------------------------------------
(* extractKeywords *)

\* [a-z0-9$]
IsWordChar(c) == c \in LowerSet \cup Digits \cup {"$"}

\* String.prototype.split(/[^a-z0-9$]+/): every maximal run of non-word
\* characters is one separator; a separator at either end leaves an empty
\* string there, and the empty string splits into one empty string.
RECURSIVE splitWords(_, _, _)
splitWords(s, i, cur) ==
  IF i > Len(s) THEN <<cur>>
  ELSE IF IsWordChar(s[i]) THEN splitWords(s, i + 1, Append(cur, s[i]))
  ELSE IF i > 1 /\ ~IsWordChar(s[i - 1]) THEN splitWords(s, i + 1, cur)
  ELSE <<cur>> \o splitWords(s, i + 1, <<>>)

\* the same split with the sigil left out of the word class: /[^a-z0-9]+/
RECURSIVE splitWordsNoSigil(_, _, _)
splitWordsNoSigil(s, i, cur) ==
  IF i > Len(s) THEN <<cur>>
  ELSE IF IsWordChar(s[i]) /\ s[i] # "$"
    THEN splitWordsNoSigil(s, i + 1, Append(cur, s[i]))
  ELSE IF i > 1 /\ ~(IsWordChar(s[i - 1]) /\ s[i - 1] # "$")
    THEN splitWordsNoSigil(s, i + 1, cur)
  ELSE <<cur>> \o splitWordsNoSigil(s, i + 1, <<>>)

extractKeywordsNoSigil(t) ==
  SelectSeq(splitWordsNoSigil(toLowerCase(t), 1, <<>>), LAMBDA w : Len(w) > 2)

\* variation: the filter keeps the words of two characters too
extractKeywordsLongerThanOne(t) ==
  SelectSeq(splitWords(toLowerCase(t), 1, <<>>), LAMBDA w : Len(w) > 1)

extractKeywords(t) ==
  SelectSeq(splitWords(toLowerCase(t), 1, <<>>), LAMBDA w : Len(w) > 2)

----------------------------------------------------------------------------
(* detectType and generateUrl *)

\* the pattern flags detectType(title, content) extracts from the lowercased
\* content (hasParens is computed by the code and never used)
hasCodeBlocks(c)    == includes(c, <<BQ, BQ, BQ>>) \/ includes(c, <<BQ>>)
hasImports(c)       == includes(c, <<"i","m","p","o","r","t"," ">>) \/ includes(c, <<"f","r","o","m"," ">>)
hasDollarSigns(c)   == includes(c, <<"$">>)
hasBrackets(c)      == includes(c, <<"{">>) /\ includes(c, <<"}">>)
hasAngleBrackets(c) == includes(c, <<"<">>) /\ includes(c, <<">">>)
hasColons(c)        == includes(c, <<":">>)

\* the conditions of the if statements of detectType(title, content), in the
\* order of the code, each on the lowercased content
isRune(c) ==
  /\ hasDollarSigns(c)
  /\ \/ includes(c, <<"$","s","t","a","t","e">>)
     \/ includes(c, <<"$","d","e","r","i","v","e","d">>)
     \/ includes(c, <<"$","e","f","f","e","c","t">>)
     \/ includes(c, <<"$","p","r","o","p","s">>)
     \/ includes(c, <<"$","b","i","n","d","a","b","l","e">>)
     \/ includes(c, <<"$","i","n","s","p","e","c","t">>)
     \/ includes(c, <<"$","h","o","s","t">>)

isDirective(c) ==
  /\ hasColons(c)
  /\ \/ includes(c, <<"u","s","e",":">>)
     \/ includes(c, <<"b","i","n","d",":">>)
     \/ includes(c, <<"t","r","a","n","s","i","t","i","o","n",":">>)
     \/ includes(c, <<"a","n","i","m","a","t","e",":">>)
     \/ includes(c, <<"s","t","y","l","e",":">>)
     \/ includes(c, <<"c","l","a","s","s",":">>)
     \/ includes(c, <<"i","n",":">>)
     \/ includes(c, <<"o","u","t",":">>)

isBlock(c) ==
  /\ hasBrackets(c)
  /\ \/ includes(c, <<"{","#">>)
     \/ includes(c, <<"{","@">>)

isBlockTag(c) ==
  \/ includes(c, <<"{","#","i","f">>)
  \/ includes(c, <<"{","#","e","a","c","h">>)
  \/ includes(c, <<"{","#","a","w","a","i","t">>)
  \/ includes(c, <<"{","#","k","e","y">>)
  \/ includes(c, <<"{","#","s","n","i","p","p","e","t">>)
  \/ includes(c, <<"{","@","r","e","n","d","e","r">>)
  \/ includes(c, <<"{","@","h","t","m","l">>)
  \/ includes(c, <<"{","@","a","t","t","a","c","h">>)
  \/ includes(c, <<"{","@","c","o","n","s","t">>)
  \/ includes(c, <<"{","@","d","e","b","u","g">>)

isElement(c) == hasAngleBrackets(c) /\ includes(c, <<"s","v","e","l","t","e",":">>)

isModule(c) ==
  /\ hasImports(c)
  /\ \/ includes(c, <<"$","a","p","p">>)
     \/ includes(c, <<"@","s","v","e","l","t","e","j","s">>)

isApi(c) ==
  /\ hasCodeBlocks(c)
  /\ \/ includes(c, <<"f","u","n","c","t","i","o","n">>)
     \/ includes(c, <<"i","n","t","e","r","f","a","c","e">>)

isConfig(c) ==
  \/ includes(c, <<"c","o","n","f","i","g">>)
  \/ includes(c, <<"a","d","a","p","t","e","r">>)

isMigration(c) ==
  \/ includes(c, <<"m","i","g","r","a","t","i","o","n">>)
  \/ includes(c, <<"u","p","g","r","a","d","e">>)

isError(c) ==
  \/ includes(c, <<"e","r","r","o","r">>)
  \/ includes(c, <<"w","a","r","n","i","n","g">>)

isStyling(c) ==
  \/ includes(c, <<"s","c","o","p","e","d"," ","s","t","y","l","e","s">>)
  \/ includes(c, <<"g","l","o","b","a","l"," ","s","t","y","l","e","s">>)
  \/ includes(c, <<"c","u","s","t","o","m"," ","p","r","o","p","e","r","t","i","e","s">>)
  \/ includes(c, <<"c","s","s">>)
  \/ includes(c, <<"s","t","y","l","e">>)
  \/ includes(c, <<"s","t","y","l","i","n","g">>)

isTesting(c) ==
  \/ includes(c, <<"t","e","s","t","i","n","g">>)
  \/ includes(c, <<"t","e","s","t">>)
  \/ includes(c, <<"v","i","t","e","s","t">>)
  \/ includes(c, <<"p","l","a","y","w","r","i","g","h","t">>)
  \/ includes(c, <<"u","n","i","t"," ","t","e","s","t">>)
  \/ includes(c, <<"e","2","e">>)

isTypescript(c) ==
  \/ includes(c, <<"t","y","p","e","s","c","r","i","p","t">>)
  \/ includes(c, <<"t","s","c","o","n","f","i","g">>)
  \/ includes(c, <<"t","y","p","e"," ","s","a","f","e","t","y">>)
  \/ includes(c, <<"i","n","t","e","r","f","a","c","e">>)
  \/ includes(c, <<"g","e","n","e","r","i","c">>)
  \/ includes(c, <<"j","s","c","o","n","f","i","g">>)

isStores(c) ==
  \/ includes(c, <<"s","t","o","r","e","s">>)
  \/ includes(c, <<"w","r","i","t","a","b","l","e">>)
  \/ includes(c, <<"r","e","a","d","a","b","l","e">>)
  \/ includes(c, <<"d","e","r","i","v","e","d"," ","s","t","o","r","e">>)
  \/ includes(c, <<"s","t","o","r","e">>)
  \/ includes(c, <<"r","e","a","c","t","i","v","e"," ","s","t","o","r","e">>)

isContext(c) ==
  \/ includes(c, <<"c","o","n","t","e","x","t">>)
  \/ includes(c, <<"s","e","t","c","o","n","t","e","x","t">>)
  \/ includes(c, <<"g","e","t","c","o","n","t","e","x","t">>)
  \/ includes(c, <<"c","o","n","t","e","x","t"," ","a","p","i">>)

isLifecycle(c) ==
  \/ includes(c, <<"l","i","f","e","c","y","c","l","e">>)
  \/ includes(c, <<"o","n","m","o","u","n","t">>)
  \/ includes(c, <<"o","n","d","e","s","t","r","o","y">>)
  \/ includes(c, <<"b","e","f","o","r","e","u","p","d","a","t","e">>)
  \/ includes(c, <<"a","f","t","e","r","u","p","d","a","t","e">>)
  \/ includes(c, <<"t","i","c","k">>)

isLegacy(c) ==
  \/ includes(c, <<"l","e","g","a","c","y">>)
  \/ includes(c, <<"d","e","p","r","e","c","a","t","e","d">>)
  \/ includes(c, <<"s","v","e","l","t","e"," ","3">>)
  \/ includes(c, <<"s","v","e","l","t","e"," ","4">>)
  \/ includes(c, <<"s","a","p","p","e","r">>)
  \/ includes(c, <<"e","x","p","o","r","t"," ","l","e","t">>)
  \/ includes(c, <<"r","e","a","c","t","i","v","e">>)
  \/ includes(c, <<"s","l","o","t">>)

\* variation: the last if statement is missing
detectTypeNoLegacyRule(t, content) ==
  LET c == toLowerCase(content)
  IN  IF isRune(c) THEN "rune"
      ELSE IF isDirective(c) THEN "directive"
      ELSE IF isBlock(c) THEN "block"
      ELSE IF isBlockTag(c) THEN "block"
      ELSE IF isElement(c) THEN "element"
      ELSE IF isModule(c) THEN "module"
      ELSE IF isApi(c) THEN "api"
      ELSE IF isConfig(c) THEN "config"
      ELSE IF isMigration(c) THEN "migration"
      ELSE IF isError(c) THEN "error"
      ELSE IF isStyling(c) THEN "styling"
      ELSE IF isTesting(c) THEN "testing"
      ELSE IF isTypescript(c) THEN "typescript"
      ELSE IF isStores(c) THEN "stores"
      ELSE IF isContext(c) THEN "context"
      ELSE IF isLifecycle(c) THEN "lifecycle"
      ELSE "concept"

\* variation: the styling test comes first
detectTypeStylingFirst(t, content) ==
  LET c == toLowerCase(content)
  IN  IF isStyling(c) THEN "styling"
      ELSE IF isRune(c) THEN "rune"
      ELSE IF isDirective(c) THEN "directive"
      ELSE IF isBlock(c) THEN "block"
      ELSE IF isBlockTag(c) THEN "block"
      ELSE IF isElement(c) THEN "element"
      ELSE IF isModule(c) THEN "module"
      ELSE IF isApi(c) THEN "api"
      ELSE IF isConfig(c) THEN "config"
      ELSE IF isMigration(c) THEN "migration"
      ELSE IF isError(c) THEN "error"
      ELSE IF isTesting(c) THEN "testing"
      ELSE IF isTypescript(c) THEN "typescript"
      ELSE IF isStores(c) THEN "stores"
      ELSE IF isContext(c) THEN "context"
      ELSE IF isLifecycle(c) THEN "lifecycle"
      ELSE IF isLegacy(c) THEN "legacy"
      ELSE "concept"

\* variation: the tests for styling and testing change places
detectTypeTestingBeforeStyling(t, content) ==
  LET c == toLowerCase(content)
  IN  IF isRune(c) THEN "rune"
      ELSE IF isDirective(c) THEN "directive"
      ELSE IF isBlock(c) THEN "block"
      ELSE IF isBlockTag(c) THEN "block"
      ELSE IF isElement(c) THEN "element"
      ELSE IF isModule(c) THEN "module"
      ELSE IF isApi(c) THEN "api"
      ELSE IF isConfig(c) THEN "config"
      ELSE IF isMigration(c) THEN "migration"
      ELSE IF isError(c) THEN "error"
      ELSE IF isTesting(c) THEN "testing"
      ELSE IF isStyling(c) THEN "styling"
      ELSE IF isTypescript(c) THEN "typescript"
      ELSE IF isStores(c) THEN "stores"
      ELSE IF isContext(c) THEN "context"
      ELSE IF isLifecycle(c) THEN "lifecycle"
      ELSE IF isLegacy(c) THEN "legacy"
      ELSE "concept"

\* detectType(title, content) of the variant with the rich category set: the
\* if statements in the order of the code, the first whose condition holds
\* returns; the title is lowercased and never read
detectTypeOfContent(t, content) ==
  LET c == toLowerCase(content)
  IN  IF isRune(c) THEN "rune"
      ELSE IF isDirective(c) THEN "directive"
      ELSE IF isBlock(c) THEN "block"
      ELSE IF isBlockTag(c) THEN "block"
      ELSE IF isElement(c) THEN "element"
      ELSE IF isModule(c) THEN "module"
      ELSE IF isApi(c) THEN "api"
      ELSE IF isConfig(c) THEN "config"
      ELSE IF isMigration(c) THEN "migration"
      ELSE IF isError(c) THEN "error"
      ELSE IF isStyling(c) THEN "styling"
      ELSE IF isTesting(c) THEN "testing"
      ELSE IF isTypescript(c) THEN "typescript"
      ELSE IF isStores(c) THEN "stores"
      ELSE IF isContext(c) THEN "context"
      ELSE IF isLifecycle(c) THEN "lifecycle"
      ELSE IF isLegacy(c) THEN "legacy"
      ELSE "concept"

\* lower.match(/^[a-z]+$/)
isLowerWord(s) == s # <<>> /\ \A i \in 1..Len(s) : s[i] \in LowerSet

\* detectType(title) of the variants with the small category set
detectTypeOfTitle(t) ==
  LET lower == toLowerCase(t)
  IN  IF \/ includes(lower, <<"$","a","p","p">>)
         \/ includes(lower, <<"@","s","v","e","l","t","e","j","s">>)
         \/ includes(lower, <<"i","m","p","o","r","t">>)
        THEN "module"
      ELSE IF isLowerWord(lower) THEN "function"
      ELSE IF includes(lower, <<"c","o","m","p","o","n","e","n","t">>) \/ includes(lower, <<"e","l","e","m","e","n","t">>)
        THEN "component"
      ELSE IF includes(lower, <<"c","o","n","f","i","g">>) \/ includes(lower, <<"a","d","a","p","t","e","r">>)
        THEN "config"
      ELSE IF includes(lower, <<"h","o","o","k">>) THEN "hook"
      ELSE "concept"

\* [a-z0-9]
IsSlugChar(c) == c \in LowerSet \cup Digits

\* .replace(/[^a-z0-9]+/g, '-'): every maximal run of other characters
\* becomes one '-'
RECURSIVE dashRuns(_, _)
dashRuns(s, i) ==
  IF i > Len(s) THEN <<>>
  ELSE IF IsSlugChar(s[i]) THEN <<s[i]>> \o dashRuns(s, i + 1)
  ELSE IF i > 1 /\ ~IsSlugChar(s[i - 1]) THEN dashRuns(s, i + 1)
  ELSE <<"-">> \o dashRuns(s, i + 1)

\* .replace(/^-|-$/g, ''): a '-' at the start goes, and a '-' at the end of
\* what follows it
stripEdgeDashes(s) ==
  LET a == IF s # <<>> /\ s[1] = "-" THEN Tail(s) ELSE s
  IN  IF a # <<>> /\ a[Len(a)] = "-" THEN SubSeq(a, 1, Len(a) - 1) ELSE a

DocsKitBase == <<"https://svelte.dev/docs/kit/">>

\* variation: the second replace is missing
generateUrlKeepsEdges(t) == DocsKitBase \o dashRuns(toLowerCase(t), 1)

\* the three branches of generateUrl return the same template
generateUrl(t) == DocsKitBase \o stripEdgeDashes(dashRuns(toLowerCase(t), 1))

----------------------------------------------------------------------------
(* parseDocsText *)

\* the callout markers and the glyphs that replace them; a glyph is one
\* character here (it is neither whitespace nor '#')
NoteMarker      == <<"[","!","N","O","T","E","]">>
WarningMarker   == <<"[","!","W","A","R","N","I","N","G","]">>
TipMarker       == <<"[","!","T","I","P","]">>
ImportantMarker == <<"[","!","I","M","P","O","R","T","A","N","T","]">>
CautionMarker   == <<"[","!","C","A","U","T","I","O","N","]">>

normalizeCallouts(t) ==
  replaceAll(
    replaceAll(
      replaceAll(
        replaceAll(
          replaceAll(t, NoteMarker, <<"(info)">>),
          WarningMarker, <<"(warning)">>),
        TipMarker, <<"(tip)">>),
      ImportantMarker, <<"(important)">>),
    CautionMarker, <<"(caution)">>)

\* line.match(/^#\s+/)
matchesMainHeading(line) ==
  Len(line) >= 2 /\ line[1] = "#" /\ IsSpace(line[2])

\* line.replace(/^#\s+/, ''): the '#' and the whole whitespace run go
stripMainHeading(line) ==
  LET rest == {i \in 2..Len(line) : ~IsSpace(line[i])}
  IN  IF ~matchesMainHeading(line) THEN line
      ELSE IF rest = {} THEN <<>>
      ELSE SubSeq(line, SetMin(rest), Len(line))

Sveltejs == <<"@","s","v","e","l","t","e","j","s">>

\* the scan state of both segmenters: sections pushed so far, the section in
\* progress (<<>> is null, <<s>> is the object s) and its line buffer
ScanInit == [sections |-> <<>>, currentSection |-> <<>>, contentLines |-> <<>>]

\* "Save previous section" / "Save last section" of the depth-1 segmenter:
\* the type is detected from the trimmed content
saveSectionMain(st) ==
  IF /\ st.currentSection # <<>>
     /\ st.currentSection[1].title # <<>>
     /\ Len(st.contentLines) > 0
    THEN LET content == trim(join(st.contentLines, NL))
         IN  Append(st.sections,
                    [st.currentSection[1] EXCEPT
                       !.content = content,
                       !.type = detectTypeOfContent(st.currentSection[1].title, content)])
    ELSE st.sections

\* "Start new section" of the depth-1 segmenter
startSectionMain(st, t) ==
  [sections       |-> saveSectionMain(st),
   currentSection |-> <<[title |-> t, content |-> <<>>, type |-> "concept",
                         keywords |-> extractKeywords(t)]>>,
   contentLines   |-> <<>>]

\* one iteration of the loop of the depth-1 segmenter, the heading line kept
\* as the first line of the new buffer
scanMainKeepHeading(st, line) ==
  IF matchesMainHeading(line)
    THEN [startSectionMain(st, stripMainHeading(line)) EXCEPT !.contentLines = <<line>>]
  ELSE IF st.currentSection # <<>>
    THEN [st EXCEPT !.contentLines = Append(@, line)]
  ELSE st

\* one iteration of the loop of the depth-1 segmenter, a line that comes
\* before any heading opening a section of its own
scanMainOpensPreamble(st, line) ==
  IF matchesMainHeading(line)
    THEN startSectionMain(st, stripMainHeading(line))
  ELSE IF st.currentSection # <<>>
    THEN [st EXCEPT !.contentLines = Append(@, line)]
  ELSE [st EXCEPT
          !.currentSection = <<[title |-> <<"i","n","t","r","o">>,
                                content |-> <<>>, type |-> "concept",
                                keywords |-> <<>>]>>,
          !.contentLines = <<line>>]

\* one iteration of the loop of the depth-1 segmenter (rich category set)
scanMain(st, line) ==
  IF matchesMainHeading(line)
    THEN startSectionMain(st, stripMainHeading(line))
  ELSE IF st.currentSection # <<>>
    THEN [st EXCEPT !.contentLines = Append(@, line)]
  ELSE st

\* "Save previous section" / "Save last section" of the depth<=3 segmenter
saveSectionSub(st) ==
  IF /\ st.currentSection # <<>>
     /\ st.currentSection[1].title # <<>>
     /\ Len(st.contentLines) > 0
    THEN Append(st.sections,
                [st.currentSection[1] EXCEPT
                   !.content = trim(join(st.contentLines, NL))])
    ELSE st.sections

\* "Start new section" of the depth<=3 segmenter
startSectionSub(st, t) ==
  [sections       |-> saveSectionSub(st),
   currentSection |-> <<[title |-> t, content |-> <<>>,
                         type |-> detectTypeOfTitle(t), url |-> generateUrl(t),
                         keywords |-> extractKeywords(t)]>>,
   contentLines   |-> <<>>]

\* one iteration of the loop of the depth<=3 segmenter, the line buffer
\* carried over from one section to the next
scanSubNoReset(st, line) ==
  IF startsWith(line, <<"#", SP>>) /\ ~includes(line, Sveltejs)
    THEN [startSectionSub(st, trim(substring(line, 2))) EXCEPT
            !.contentLines = st.contentLines]
  ELSE IF startsWith(line, <<"#","#", SP>>) \/ startsWith(line, <<"#","#","#", SP>>)
    THEN LET level == IF startsWith(line, <<"#","#", SP>>) THEN 2 ELSE 3
         IN  [startSectionSub(st, trim(substring(line, level + 1))) EXCEPT
                !.contentLines = st.contentLines]
  ELSE IF st.currentSection # <<>>
    THEN [st EXCEPT !.contentLines = Append(@, line)]
  ELSE st

\* one iteration of the loop of the depth<=3 segmenter (subsections are
\* sections of their own)
scanSub(st, line) ==
  IF startsWith(line, <<"#", SP>>) /\ ~includes(line, Sveltejs)
    THEN startSectionSub(st, trim(substring(line, 2)))
  ELSE IF startsWith(line, <<"#","#", SP>>) \/ startsWith(line, <<"#","#","#", SP>>)
    THEN LET level == IF startsWith(line, <<"#","#", SP>>) THEN 2 ELSE 3
         IN  startSectionSub(st, trim(substring(line, level + 1)))
  ELSE IF st.currentSection # <<>>
    THEN [st EXCEPT !.contentLines = Append(@, line)]
  ELSE st

RECURSIVE scanLinesMain(_, _, _)
scanLinesMain(st, lines, i) ==
  IF i > Len(lines) THEN st
  ELSE scanLinesMain(scanMain(st, lines[i]), lines, i + 1)

RECURSIVE scanLinesSub(_, _, _)
scanLinesSub(st, lines, i) ==
  IF i > Len(lines) THEN st
  ELSE scanLinesSub(scanSub(st, lines[i]), lines, i + 1)

\* parseDocsText of the variant with the rich category set: only depth-1
\* headings are boundaries
parseDocsTextMain(t) ==
  saveSectionMain(scanLinesMain(ScanInit, split(normalizeCallouts(t), NL), 1))

\* parseDocsText of the substring-ranking variant: headings of depth <= 3 are
\* boundaries
parseDocsTextSub(t) ==
  saveSectionSub(scanLinesSub(ScanInit, split(t, NL), 1))

----------------------------------------------------------------------------
(* getMatchScore and the filter / sort of Command *)

\* section.keywords.some((k) => k.includes(search))
someKeywordIncludes(section, search) ==
  \E i \in 1..Len(section.keywords) : includes(section.keywords[i], search)

\* section.keywords.some((k) => k === search)
someKeywordEquals(section, search) ==
  \E i \in 1..Len(section.keywords) : section.keywords[i] = search

\* getMatchScore with the rules chained by else-if: only the best one counts
getMatchScoreExclusive(section, search) ==
  IF someKeywordEquals(section, search) THEN 100
  ELSE IF someKeywordIncludes(section, search) THEN 50
  ELSE IF toLowerCase(section.title) = search THEN 30
  ELSE IF includes(toLowerCase(section.title), search) THEN 20
  ELSE IF includes(toLowerCase(section.content), search) THEN 10
  ELSE 0

\* getMatchScore that compares the title as written, without toLowerCase
getMatchScoreTitleAsWritten(section, search) ==
  LET s1 == IF someKeywordEquals(section, search) THEN 100 ELSE 0
      s2 == IF someKeywordIncludes(section, search) THEN s1 + 50 ELSE s1
      s3 == IF section.title = search THEN s2 + 30 ELSE s2
      s4 == IF includes(section.title, search) THEN s3 + 20 ELSE s3
      s5 == IF includes(toLowerCase(section.content), search) THEN s4 + 10 ELSE s4
  IN  s5

\* getMatchScore with the weights of 'keyword contains' and 'title contains'
\* swapped
getMatchScoreSwappedWeights(section, search) ==
  LET s1 == IF someKeywordEquals(section, search) THEN 100 ELSE 0
      s2 == IF someKeywordIncludes(section, search) THEN s1 + 20 ELSE s1
      s3 == IF toLowerCase(section.title) = search THEN s2 + 30 ELSE s2
      s4 == IF includes(toLowerCase(section.title), search) THEN s3 + 50 ELSE s3
      s5 == IF includes(toLowerCase(section.content), search) THEN s4 + 10 ELSE s4
  IN  s5

getMatchScore(section, search) ==
  LET s1 == IF someKeywordEquals(section, search) THEN 100 ELSE 0
      s2 == IF someKeywordIncludes(section, search) THEN s1 + 50 ELSE s1
      s3 == IF toLowerCase(section.title) = search THEN s2 + 30 ELSE s2
      s4 == IF includes(toLowerCase(section.title), search) THEN s3 + 20 ELSE s3
      s5 == IF includes(toLowerCase(section.content), search) THEN s4 + 10 ELSE s4
  IN  s5

\* the filter callback without the test of the content
filterSectionNoContent(section, query) ==
  IF query = <<>> THEN TRUE
  ELSE LET search == toLowerCase(query)
       IN  \/ includes(toLowerCase(section.title), search)
           \/ someKeywordIncludes(section, search)

\* variation: the query is compared as it was typed
filterSectionQueryAsTyped(section, query) ==
  IF query = <<>> THEN TRUE
  ELSE LET search == query
       IN  \/ includes(toLowerCase(section.title), search)
           \/ someKeywordIncludes(section, search)
           \/ includes(toLowerCase(section.content), search)

\* the callback of sections.filter: !searchText is true of the empty string
filterSection(section, query) ==
  IF query = <<>> THEN TRUE
  ELSE LET search == toLowerCase(query)
       IN  \/ includes(toLowerCase(section.title), search)
           \/ someKeywordIncludes(section, search)
           \/ includes(toLowerCase(section.content), search)

\* the comparator without the early return for the empty query
compareSectionsNoGuard(a, b, query) ==
  getMatchScore(b, toLowerCase(query)) - getMatchScore(a, toLowerCase(query))

\* the comparator with the operands of the subtraction exchanged
compareSectionsAscending(a, b, query) ==
  IF query = <<>> THEN 0
  ELSE getMatchScore(a, toLowerCase(query)) - getMatchScore(b, toLowerCase(query))

\* the callback of .sort
compareSections(a, b, query) ==
  IF query = <<>> THEN 0
  ELSE getMatchScore(b, toLowerCase(query)) - getMatchScore(a, toLowerCase(query))

\* Array.prototype.sort is stable: an element goes behind every element that
\* does not compare greater than it
insertSection(sorted, x, query) ==
  LET notAfter == { i \in 1..Len(sorted) : compareSections(sorted[i], x, query) <= 0 }
      at == IF notAfter = {} THEN 0 ELSE SetMax(notAfter)
  IN  SubSeq(sorted, 1, at) \o <<x>> \o SubSeq(sorted, at + 1, Len(sorted))

RECURSIVE sortSectionsFrom(_, _, _, _)
sortSectionsFrom(arr, i, sorted, query) ==
  IF i > Len(arr) THEN sorted
  ELSE sortSectionsFrom(arr, i + 1, insertSection(sorted, arr[i], query), query)

sortSections(arr, query) == sortSectionsFrom(arr, 1, <<>>, query)

\* const filteredSections = sections.filter(...).sort(...)
computeFilteredSections(secs, query) ==
  sortSections(SelectSeq(secs, LAMBDA s : filterSection(s, query)), query)

----------------------------------------------------------------------------
(* Inputs of the segmenter: documents of at most MaxLines lines *)

MaxLines == 4

ParseLines ==
  { <<>>,                                        \* blank line
    <<"a">>,                                     \* prose
    <<"#", SP, "a">>,                            \* depth-1 heading
    <<"#", SP, "a", SP>>,                        \* the same, a space after it
    <<"#","#", SP, "b">>,                        \* depth-2 heading
    <<"#", TAB, "a">>,                           \* '#' then a tab
    <<SP, "#", SP, "a">>,                        \* '#' not at column 0
    <<"#", SP>> \o Sveltejs,                     \* depth-1 heading naming a package
    <<"#", SP>>,                                 \* heading without text
    TipMarker }                                  \* callout marker

ParseTexts ==
  { join(ls, NL) : ls \in UNION { [1..n -> ParseLines] : n \in 0..MaxLines } }

----------------------------------------------------------------------------
(* Initial values of the variables a specification does not use *)

ParseIdle == text = <<>> /\ parsed = <<>> /\ parsePc = "idle"
KwIdle    == title = <<>> /\ keywords = <<>> /\ url = <<>> /\ kwPc = "idle"
CmdIdle   == /\ remoteDocs = <<>> /\ argsQuery = <<>> /\ data = <<>>
             /\ cache = <<>> /\ sections = <<>> /\ searchText = <<>>
             /\ isLoading = FALSE /\ filteredSections = <<>>
             /\ cmdPc = "idle"
TypeIdle  == /\ typeTitle = <<>> /\ typeContent = <<>> /\ detectedType = ""
             /\ typePc = "idle"
SelIdle   == /\ cacheExpiry = <<>> /\ now = 0 /\ showDetail = FALSE
             /\ selectedItemId = <<>> /\ hasAutoSelected = FALSE
             /\ effectDue = FALSE /\ listChanged = "no"
             /\ lastLoad = <<>> /\ execute = FALSE /\ event = <<>>

----------------------------------------------------------------------------
(* The segmenter applied to a document *)

InitParse ==
  /\ text \in ParseTexts
  /\ parsed = <<>>
  /\ parsePc = "input"
  /\ KwIdle /\ CmdIdle /\ TypeIdle /\ SelIdle

ParseMain ==
  /\ parsePc = "input"
  /\ parsed' = parseDocsTextMain(text)
  /\ parsePc' = "main"
  /\ UNCHANGED <<text, kwVars, cmdVars, typeVars, selVars>>

ParseSub ==
  /\ parsePc = "input"
  /\ parsed' = parseDocsTextSub(text)
  /\ parsePc' = "sub"
  /\ UNCHANGED <<text, kwVars, cmdVars, typeVars, selVars>>

NextParse == ParseMain \/ ParseSub

SpecParse == InitParse /\ [][NextParse]_vars

----------------------------------------------------------------------------
(* What the segmentation claims speak of, read off the input text *)

\* the lines the segmenter of the finished run scanned
ScannedLines ==
  IF parsePc = "main" THEN split(normalizeCallouts(text), NL) ELSE split(text, NL)

\* the lines of the text as it was handed in
InputLines == split(text, NL)

\* a boundary line of the policy of variant v
IsBoundary(v, l) ==
  IF v = "main"
    THEN Len(l) >= 2 /\ l[1] = "#" /\ IsSpace(l[2])
    ELSE \/ startsWith(l, <<"#", SP>>) /\ ~includes(l, Sveltejs)
         \/ startsWith(l, <<"#","#", SP>>)
         \/ startsWith(l, <<"#","#","#", SP>>)

\* a line that starts with 1-3 '#' followed by whitespace
HeadingLike(l) ==
  \E d \in 1..3 :
    /\ Len(l) > d
    /\ \A i \in 1..d : l[i] = "#"
    /\ IsSpace(l[d + 1])

\* number of '#' of the marker of boundary line l
MarkerLen(v, l) ==
  IF v = "main" \/ startsWith(l, <<"#", SP>>) THEN 1
  ELSE IF startsWith(l, <<"#","#", SP>>) THEN 2 ELSE 3

\* index of the last line of the run of non-boundary lines after line h
RunEnd(v, L, h) ==
  SetMax({ e \in h..Len(L) : \A j \in (h + 1)..e : ~IsBoundary(v, L[j]) })

\* the boundary lines that have a heading text and at least one line after
\* them before the next boundary
Emitting(v, L) ==
  { h \in 1..Len(L) :
      /\ IsBoundary(v, L[h])
      /\ \E j \in (MarkerLen(v, L[h]) + 1)..Len(L[h]) : ~IsSpace(L[h][j])
      /\ RunEnd(v, L, h) > h }

Kth(S, k) == CHOOSE h \in S : Cardinality({ g \in S : g < h }) = k - 1

\* the sections are, in order, the emitting headings of L, each with the
\* trimmed join of the whole run of lines after it
SegmentsOf(v, L) ==
  /\ Len(parsed) = Cardinality(Emitting(v, L))
  /\ \A k \in 1..Len(parsed) :
       LET h == Kth(Emitting(v, L), k)
       IN  /\ trim(parsed[k].title) =
                trim(SubSeq(L[h], MarkerLen(v, L[h]) + 1, Len(L[h])))
           /\ parsed[k].content = trim(join(SubSeq(L, h + 1, RunEnd(v, L, h)), NL))
  /\ \A h1, h2 \in Emitting(v, L) : h1 < h2 => RunEnd(v, L, h1) < h2

----------------------------------------------------------------------------
(* C1 *)

\* C1 (as stated): no emitted section has an empty body; a heading followed
\* only by blank lines up to the next boundary (or the end) yields no section.
C1_NoEmptyBody ==
  parsePc \in {"main", "sub"} =>
    \A k \in 1..Len(parsed) : parsed[k].content # <<>>

----------------------------------------------------------------------------
(* C3 *)

\* C3 (as stated): no line of an emitted body starts with 1-3 '#' followed by
\* whitespace.
C3_NoHeadingLikeLine ==
  parsePc \in {"main", "sub"} =>
    \A k \in 1..Len(parsed) :
      \A j \in 1..Len(split(parsed[k].content, NL)) :
        ~HeadingLike(split(parsed[k].content, NL)[j])

\* C3 (amended): every emitted body is the trimmed join of consecutive scanned
\* lines none of which is a boundary line of the variant's policy, so a body
\* never holds its own heading line or the heading line of another section.
C3_BodyHasNoBoundaryLine ==
  parsePc \in {"main", "sub"} =>
    LET L == ScannedLines
    IN  \A k \in 1..Len(parsed) :
          \E a \in 1..Len(L) : \E b \in a..Len(L) :
            /\ \A j \in a..b : ~IsBoundary(parsePc, L[j])
            /\ parsed[k].content = trim(join(SubSeq(L, a, b), NL))

\* a body that keeps a heading-like line the variant does not split at
C3_Witness ==
  /\ parsePc \in {"main", "sub"}
  /\ \E k \in 1..Len(parsed) :
       \E j \in 1..Len(split(parsed[k].content, NL)) :
         HeadingLike(split(parsed[k].content, NL)[j])

----------------------------------------------------------------------------
(* C4 *)

\* C4 (as stated): sections in heading order, each body the trimmed run of
\* input lines between its heading and the next boundary, no line shared.
C4_PartitionOfInputLines ==
  parsePc \in {"main", "sub"} => SegmentsOf(parsePc, InputLines)

\* C4 (amended): the same, of the lines the segmenter scanned: in the depth-1
\* variant these are the input lines after the callout markers were replaced.
C4_PartitionOfScannedLines ==
  parsePc \in {"main", "sub"} => SegmentsOf(parsePc, ScannedLines)

\* two sections came out, with different bodies
C4_Witness ==
  /\ parsePc \in {"main", "sub"}
  /\ Len(parsed) >= 2
  /\ parsed[1].content # parsed[2].content
  /\ parsed[1].content # <<>>

----------------------------------------------------------------------------
(* extractKeywords and generateUrl applied to a title *)

MaxTitleLen == 3

KwChars == {"a", "B", "1", "$", "/", SP}

AppStoresTitle == <<"$","a","p","p","/","s","t","o","r","e","s">>

MaxPieces == 5

\* words and separators that longer titles are made of
KwPieces == { <<"a","B","1">>, <<"$","a","b">>, <<"A","b">>, <<"/">>, <<"-"," ">> }

RECURSIVE concat(_)
concat(parts) == IF parts = <<>> THEN <<>> ELSE parts[1] \o concat(Tail(parts))

KwTitles ==
  UNION { [1..n -> KwChars] : n \in 0..MaxTitleLen }
    \cup { concat(ps) : ps \in UNION { [1..n -> KwPieces] : n \in 1..MaxPieces } }
    \cup {AppStoresTitle}

InitKw ==
  /\ title \in KwTitles
  /\ keywords = <<>>
  /\ url = <<>>
  /\ kwPc = "input"
  /\ ParseIdle /\ CmdIdle /\ TypeIdle /\ SelIdle

ExtractKeywords ==
  /\ kwPc = "input"
  /\ keywords' = extractKeywords(title)
  /\ kwPc' = "done"
  /\ UNCHANGED <<title, url, parseVars, cmdVars, typeVars, selVars>>

GenerateUrl ==
  /\ kwPc = "input"
  /\ url' = generateUrl(title)
  /\ kwPc' = "url"
  /\ UNCHANGED <<title, keywords, parseVars, cmdVars, typeVars, selVars>>

NextKw == ExtractKeywords \/ GenerateUrl

SpecKw == InitKw /\ [][NextKw]_vars

SeqRange(q) == { q[i] : i \in 1..Len(q) }

----------------------------------------------------------------------------
(* C2 *)

\* C2 (as stated): the keywords of "$app/stores" are exactly "app" and
\* "stores"; the sigil is in no keyword.
C2_AppStoresWithoutSigil ==
  (kwPc = "done" /\ title = AppStoresTitle) =>
    SeqRange(keywords) = { <<"a","p","p">>, <<"s","t","o","r","e","s">> }

\* C2 (amended): the keywords of "$app/stores" are exactly "$app" and
\* "stores", in this order: '$' is a word character and stays in the keyword,
\* '/' separates.
C2_AppStoresKeepsSigil ==
  (kwPc = "done" /\ title = AppStoresTitle) =>
    keywords = << <<"$","a","p","p">>, <<"s","t","o","r","e","s">> >>

C2_Witness ==
  kwPc = "done" /\ title = AppStoresTitle /\ Len(keywords) = 2

----------------------------------------------------------------------------
(* Command of the substring-ranking variant *)

MaxSections == 3

\* title and body of the sections of the ranked documents
RankSections ==
  { << <<"c">>, <<"a","B">> >>,
    << <<"c">>, <<"x">> >>,
    << <<"A","b">>, <<"a","B">> >>,
    << <<"a","b","c">>, <<"x">> >>,
    << <<"a","b","c">>, <<"a","B">> >>,
    << <<"a","b", SP, "c">>, <<"x">> >> }

\* the queries typed into the search bar, and those passed as argument
SearchTexts == { <<>>, <<"a","b">>, <<"A","B">>, <<"a","b","c">>, <<"c">>, <<"z">> }
ArgQueries  == { <<>>, <<"a","b">> }

\* a document of n sections: a depth-1 heading and one body line each
RankDocs ==
  { join([i \in 1..Len(ss) |-> <<"#", SP>> \o ss[i][1] \o <<NL>> \o ss[i][2]], NL) :
      ss \in UNION { [1..n -> RankSections] : n \in 0..MaxSections } }

\* the body of loadDocs from a cached text c and fetched data d (each <<>> or
\* <<text>>): the new values of cache and sections
loadDocs(c, d, secs) ==
  IF c # <<>> /\ c[1] # <<>>
    THEN [cache |-> c, sections |-> parseDocsTextSub(c[1])]
  ELSE IF d # <<>> /\ d[1] # <<>>
    THEN [cache |-> d, sections |-> parseDocsTextSub(d[1])]
  ELSE [cache |-> c, sections |-> secs]

InitCommand ==
  /\ remoteDocs \in RankDocs
  /\ argsQuery \in ArgQueries
  /\ cache \in {<<>>} \cup (IF remoteDocs = <<>> THEN {} ELSE {<<remoteDocs>>})
  /\ data = <<>>
  /\ sections = <<>>
  /\ searchText = argsQuery
  /\ isLoading = TRUE
  /\ filteredSections = <<>>
  /\ cmdPc = "mounting"
  /\ ParseIdle /\ KwIdle /\ TypeIdle /\ SelIdle

\* first run of the effect: the cached text is parsed, or nothing is there yet
\* and useFetch (execute: !cache.has) is under way
Mount ==
  /\ cmdPc = "mounting"
  /\ LET r == loadDocs(cache, data, sections)
     IN  /\ cache' = r.cache
         /\ sections' = r.sections
         /\ filteredSections' = computeFilteredSections(r.sections, searchText)
  /\ isLoading' = FALSE
  /\ cmdPc' = IF cache # <<>> THEN "ready" ELSE "fetching"
  /\ UNCHANGED <<remoteDocs, argsQuery, data, searchText, parseVars, kwVars, typeVars, selVars>>

\* useFetch delivers the text; the effect runs again because data changed
FetchDone ==
  /\ cmdPc = "fetching"
  /\ data' = <<remoteDocs>>
  /\ LET r == loadDocs(cache, <<remoteDocs>>, sections)
     IN  /\ cache' = r.cache
         /\ sections' = r.sections
         /\ filteredSections' = computeFilteredSections(r.sections, searchText)
  /\ isLoading' = FALSE
  /\ cmdPc' = "ready"
  /\ UNCHANGED <<remoteDocs, argsQuery, searchText, parseVars, kwVars, typeVars, selVars>>

\* variation: the render sorts the state array itself, sections.sort(...),
\* and filters afterwards
SearchTextChangeSortsInPlace(t) ==
  /\ cmdPc \in {"fetching", "ready"}
  /\ ~(argsQuery # <<>> /\ t = <<>> /\ searchText = argsQuery)
  /\ searchText' = t
  /\ sections' = sortSections(sections, t)
  /\ filteredSections' = computeFilteredSections(sortSections(sections, t), t)
  /\ UNCHANGED <<remoteDocs, argsQuery, data, cache, isLoading, cmdPc,
                 parseVars, kwVars, typeVars, selVars>>

\* onSearchTextChange, and the render that follows setSearchText
SearchTextChange(t) ==
  /\ cmdPc \in {"fetching", "ready"}
  /\ ~(argsQuery # <<>> /\ t = <<>> /\ searchText = argsQuery)
  /\ searchText' = t
  /\ filteredSections' = computeFilteredSections(sections, t)
  /\ UNCHANGED <<remoteDocs, argsQuery, data, cache, sections, isLoading, cmdPc,
                 parseVars, kwVars, typeVars, selVars>>

\* the action 'Clear Cache' of a list item (there is one per rendered item);
\* the text is fetched again at the next launch
ClearCache ==
  /\ cmdPc = "ready"
  /\ filteredSections # <<>>
  /\ cache' = <<>>
  /\ UNCHANGED <<remoteDocs, argsQuery, data, sections, searchText, isLoading,
                 filteredSections, cmdPc, parseVars, kwVars, typeVars, selVars>>

NextCommand ==
  \/ Mount
  \/ FetchDone
  \/ \E t \in SearchTexts : SearchTextChange(t)
  \/ ClearCache

SpecCommand == InitCommand /\ [][NextCommand]_vars

----------------------------------------------------------------------------
(* What the ranking claims speak of *)

\* the documents have been loaded and the list has been rendered
Ranked == cmdPc = "ready" /\ sections # <<>>

\* the query as the ranker compares it
Search == toLowerCase(searchText)

\* q occurs in s at some offset
IsSubstring(q, s) ==
  \E off \in 0..Len(s) :
    /\ off + Len(q) <= Len(s)
    /\ \A j \in 1..Len(q) : s[off + j] = q[j]

KeywordHit(sec)  == \E k \in SeqRange(sec.keywords) : IsSubstring(Search, k)
KeywordIs(sec)   == \E k \in SeqRange(sec.keywords) : k = Search
TitleHit(sec)    == IsSubstring(Search, toLowerCase(sec.title))
TitleIs(sec)     == toLowerCase(sec.title) = Search
ContentHit(sec)  == IsSubstring(Search, toLowerCase(sec.content))

Count(q, r) == Cardinality({ i \in 1..Len(q) : q[i] = r })

Bonus(cond, points) == IF cond THEN points ELSE 0

----------------------------------------------------------------------------
(* C5 *)

\* C5: with the empty query the rendered list is the stored section list:
\* every section, in document order.
C5_EmptyQueryKeepsList ==
  (Ranked /\ searchText = <<>>) => filteredSections = sections

C5_Witness ==
  /\ Ranked /\ searchText = <<>>
  /\ Len(filteredSections) >= 2
  /\ filteredSections[1].keywords = <<>>
  /\ filteredSections[2].keywords # <<>>

----------------------------------------------------------------------------
(* C6 *)

\* C6: with a non-empty query a section is in the rendered list exactly when
\* the lowercased query occurs in its lowercased title, in one of its keywords
\* or in its lowercased body (as often as it is in the section list); when no
\* section matches the list is empty.
C6_IncludedIffSubstring ==
  (Ranked /\ searchText # <<>>) =>
    /\ \A r \in SeqRange(sections) \cup SeqRange(filteredSections) :
         Count(filteredSections, r) =
           IF TitleHit(r) \/ KeywordHit(r) \/ ContentHit(r)
             THEN Count(sections, r) ELSE 0
    /\ (\A r \in SeqRange(sections) : ~(TitleHit(r) \/ KeywordHit(r) \/ ContentHit(r)))
         => filteredSections = <<>>

\* some sections are kept, one of them for its body alone, and some are not
C6_Witness ==
  /\ Ranked /\ searchText # <<>>
  /\ filteredSections # <<>>
  /\ Len(filteredSections) < Len(sections)
  /\ \E r \in SeqRange(filteredSections) : ~TitleHit(r) /\ ~KeywordHit(r)

----------------------------------------------------------------------------
(* C7 *)

\* C7: the score of every section is the sum of the five bonuses that apply,
\* each counted on its own (+100 keyword equals, +50 keyword contains, +30
\* title equals, +20 title contains, +10 body contains), and every section
\* rendered for a non-empty query scores at least 10.
C7_ScoreIsSumOfBonuses ==
  Ranked =>
    /\ \A r \in SeqRange(sections) :
         getMatchScore(r, Search) =
           Bonus(KeywordIs(r), 100) + Bonus(KeywordHit(r), 50) + Bonus(TitleIs(r), 30)
             + Bonus(TitleHit(r), 20) + Bonus(ContentHit(r), 10)
    /\ searchText # <<>> =>
         \A r \in SeqRange(filteredSections) : getMatchScore(r, Search) >= 10

\* a rendered section to which several rules apply at once, and one that
\* scores the minimum
C7_Witness ==
  /\ Ranked /\ searchText # <<>>
  /\ \E r \in SeqRange(filteredSections) : KeywordHit(r) /\ TitleHit(r) /\ ContentHit(r)
  /\ \E r \in SeqRange(filteredSections) : ~KeywordHit(r) /\ ~TitleHit(r) /\ ContentHit(r)

----------------------------------------------------------------------------
(* C8 *)

\* C8: with a non-empty query the rendered list is in non-increasing score
\* order and sections of equal score keep the order they have in the section
\* list: the list can be traced back to positions of the section list so that
\* of any two entries the earlier has the higher score, or the same score
\* and the earlier position.
C8_SortedByScoreStable ==
  (Ranked /\ searchText # <<>>) =>
    \E f \in [1..Len(filteredSections) -> 1..Len(sections)] :
      /\ \A i \in 1..Len(filteredSections) : sections[f[i]] = filteredSections[i]
      /\ \A i, j \in 1..Len(filteredSections) :
           i < j =>
             \/ getMatchScore(filteredSections[i], Search) > getMatchScore(filteredSections[j], Search)
             \/ /\ getMatchScore(filteredSections[i], Search) = getMatchScore(filteredSections[j], Search)
                /\ f[i] < f[j]

\* the sort moved the last section to the front and left two different
\* sections of equal score in document order
C8_Witness ==
  /\ Ranked /\ searchText # <<>>
  /\ Len(sections) = 3 /\ Len(filteredSections) = 3
  /\ filteredSections = <<sections[3], sections[1], sections[2]>>
  /\ sections[1] # sections[2]
  /\ sections[3] # sections[1]
  /\ Bonus(KeywordHit(sections[1]), 50) + Bonus(TitleIs(sections[1]), 30)
       = Bonus(KeywordHit(sections[2]), 50) + Bonus(TitleIs(sections[2]), 30)
  /\ TitleHit(sections[1]) = TitleHit(sections[2])
  /\ ContentHit(sections[1]) = ContentHit(sections[2])

----------------------------------------------------------------------------
(* C9 *)

\* C9: of two sections with the same body, one whose lowercased title equals
\* the lowercased query scores strictly higher than one whose lowercased title
\* does not contain it.
C9_TitleExactBeatsNoTitleMatch ==
  Ranked =>
    \A a, b \in SeqRange(sections) :
      (a.content = b.content /\ TitleIs(a) /\ ~TitleHit(b)) =>
        getMatchScore(a, Search) > getMatchScore(b, Search)

\* such a pair, the title differing from the query in letter case
C9_Witness ==
  /\ Ranked
  /\ \E a, b \in SeqRange(sections) :
       /\ a.content = b.content /\ TitleIs(a) /\ ~TitleHit(b)
       /\ a.title # Search
       /\ ContentHit(a)

----------------------------------------------------------------------------
(* C10 *)

\* C10: with a non-empty query, in the rendered list every section with a
\* keyword containing the query comes before every section that matches in
\* its title but in no keyword, and both come before every section that
\* matches in its body only.
C10_KeywordsTitlesContent ==
  (Ranked /\ searchText # <<>>) =>
    \A i, j \in 1..Len(filteredSections) :
      LET x == filteredSections[i]
          y == filteredSections[j]
      IN  /\ (KeywordHit(x) /\ ~KeywordHit(y)) => i < j
          /\ (TitleHit(x) /\ ~KeywordHit(x) /\ ~TitleHit(y) /\ ~KeywordHit(y)) => i < j

\* the three classes are rendered together, and document order was the
\* reverse: body-only first, keyword last
C10_Witness ==
  /\ Ranked /\ searchText # <<>>
  /\ Len(sections) = 3 /\ Len(filteredSections) = 3
  /\ ~TitleHit(sections[1]) /\ ~KeywordHit(sections[1]) /\ ContentHit(sections[1])
  /\ TitleIs(sections[2]) /\ ~KeywordHit(sections[2]) /\ ContentHit(sections[2])
  /\ KeywordHit(sections[3]) /\ ~ContentHit(sections[3])
  /\ filteredSections = <<sections[3], sections[2], sections[1]>>

----------------------------------------------------------------------------
(* C13 *)

\* the indices of the boundary lines of variant v among the lines L
Boundaries(v, L) == { h \in 1..Len(L) : IsBoundary(v, L[h]) }

\* the segmenter of variant v
parseDocsTextOf(v, t) ==
  IF v = "main" THEN parseDocsTextMain(t) ELSE parseDocsTextSub(t)

\* C13: a text without a boundary heading line, the empty string included,
\* yields the empty sequence of sections; the lines before the first boundary
\* line are in no section: the result is that of the text from the first
\* boundary line on
C13_NothingBeforeFirstHeading ==
  parsePc \in {"main", "sub"} =>
    LET L == InputLines
        B == Boundaries(parsePc, L)
    IN  IF B = {} THEN parsed = <<>>
        ELSE parsed =
               parseDocsTextOf(parsePc, join(SubSeq(L, SetMin(B), Len(L)), NL))

\* a callout line, then a heading with a body: one section, the callout is
\* not in it
C13_Witness ==
  /\ parsePc \in {"main", "sub"}
  /\ InputLines = << TipMarker, <<"#", SP, "a">>, <<"a">> >>
  /\ Len(parsed) = 1
  /\ parsed[1].title = <<"a">>
  /\ parsed[1].content = <<"a">>

----------------------------------------------------------------------------
(* C20 *)

\* C20 (as stated): every emitted title is non-empty and is the text of its
\* heading line without the '#' marker and without the whitespace around it;
\* a heading line without text yields no section.
C20_TitleIsTrimmedHeadingText ==
  parsePc \in {"main", "sub"} =>
    LET L == ScannedLines
        E == Emitting(parsePc, L)
    IN  /\ Len(parsed) = Cardinality(E)
        /\ \A k \in 1..Len(parsed) :
             LET h == Kth(E, k)
             IN  /\ parsed[k].title # <<>>
                 /\ parsed[k].title =
                      trim(SubSeq(L[h], MarkerLen(parsePc, L[h]) + 1, Len(L[h])))

----------------------------------------------------------------------------
(* C19 *)

\* [a-z0-9$]
IsKeywordChar(c) == c \in LowerSet \cup Digits \cup {"$"}

\* the first positions of the maximal runs of keyword characters of s
RunStarts(s) ==
  { a \in 1..Len(s) : IsKeywordChar(s[a]) /\ (a = 1 \/ ~IsKeywordChar(s[a - 1])) }

\* the last position of the run that starts at a
RunLast(s, a) == SetMax({ b \in a..Len(s) : \A j \in a..b : IsKeywordChar(s[j]) })

\* the starts of the runs longer than two characters
LongRunStarts(s) == { a \in RunStarts(s) : RunLast(s, a) - a + 1 > 2 }

\* C19: the keywords are, in order of appearance, the maximal runs of
\* characters of [a-z0-9$] of the lowercased title that are longer than two
\* characters; each is lowercase, longer than two characters and a substring
\* of the lowercased title
C19_KeywordsAreLongRuns ==
  kwPc = "done" =>
    LET lower == toLowerCase(title)
        starts == LongRunStarts(lower)
    IN  /\ Len(keywords) = Cardinality(starts)
        /\ \A k \in 1..Len(keywords) :
             LET a == Kth(starts, k)
             IN  /\ keywords[k] = SubSeq(lower, a, RunLast(lower, a))
                 /\ Len(keywords[k]) > 2
                 /\ \A j \in 1..Len(keywords[k]) : keywords[k][j] \notin SeqRange(Uppers)
                 /\ IsSubstring(keywords[k], lower)

\* "Ab/aB1- $ab": the run "ab" is dropped, "ab1" and "$ab" come out in order
C19_Witness ==
  /\ kwPc = "done"
  /\ title = <<"A","b","/","a","B","1","-"," ","$","a","b">>
  /\ keywords = << <<"a","b","1">>, <<"$","a","b">> >>

----------------------------------------------------------------------------
(* C15 *)

\* [a-z0-9]
IsAlnum(c) == c \in LowerSet \cup Digits

\* s with every maximal run of characters outside [a-z0-9] replaced by one '-'
RunsReplaced(s) ==
  LET keep == { i \in 1..Len(s) : IsAlnum(s[i]) \/ i = 1 \/ IsAlnum(s[i - 1]) }
  IN  [ k \in 1..Cardinality(keep) |->
          IF IsAlnum(s[Kth(keep, k)]) THEN s[Kth(keep, k)] ELSE "-" ]

\* what follows the base in the URL
Slug == SubSeq(url, Len(DocsKitBase) + 1, Len(url))

\* only [a-z0-9-], no two '-' in a row, no '-' at either end
WellFormedSlug(g) ==
  /\ \A i \in 1..Len(g) : IsAlnum(g[i]) \/ g[i] = "-"
  /\ \A i \in 1..(Len(g) - 1) : ~(g[i] = "-" /\ g[i + 1] = "-")
  /\ g # <<>> => (g[1] # "-" /\ g[Len(g)] # "-")

\* C15 (as stated): the URL is the base followed by the lowercased title with
\* every maximal run of characters outside [a-z0-9] replaced by one '-', and
\* this slug has only [a-z0-9-], no two consecutive '-' and no '-' at either
\* end.
C15_SlugIsRunsReplaced ==
  kwPc = "url" =>
    /\ url = DocsKitBase \o RunsReplaced(toLowerCase(title))
    /\ WellFormedSlug(Slug)

\* C15 (amended): the slug is that string with a '-' at its start and a '-'
\* at its end removed; it has only [a-z0-9-], no two consecutive '-' and no
\* '-' at either end.
C15_SlugIsRunsReplacedEdgesCut ==
  kwPc = "url" =>
    LET r == RunsReplaced(toLowerCase(title))
        a == IF r # <<>> /\ r[1] = "-" THEN 2 ELSE 1
        b == IF r # <<>> /\ r[Len(r)] = "-" THEN Len(r) - 1 ELSE Len(r)
    IN  /\ SubSeq(url, 1, Len(DocsKitBase)) = DocsKitBase
        /\ Slug = SubSeq(r, a, b)
        /\ WellFormedSlug(Slug)

\* "$ab- Ab/": a run at the start, a run of two characters inside, a run at
\* the end
C15_Witness ==
  /\ kwPc = "url"
  /\ title = <<"$","a","b","-"," ","A","b","/">>
  /\ Slug = <<"a","b","-","a","b">>

----------------------------------------------------------------------------
(* C14 *)

\* the upper-case letter of every lower-case letter
UpperOf ==
  [c \in LowerSet |-> Uppers[CHOOSE i \in 1..Len(Lowers) : Lowers[i] = c]]

upperChar(c) == IF c \in LowerSet THEN UpperOf[c] ELSE c

toUpperCase(s) == [i \in 1..Len(s) |-> upperChar(s[i])]

\* the queries that differ from q in letter case only
CaseVariants(q) ==
  ({ toLowerCase(q), toUpperCase(q) }
     \cup { p \in SearchTexts : toLowerCase(p) = toLowerCase(q) }) \ {q}

\* the section r as the segmenter yields it when the title and the body are
\* written in another letter case
Recased(r) ==
  { [r EXCEPT !.title = tc[1], !.content = tc[2],
              !.keywords = extractKeywords(tc[1])] :
      tc \in { <<toUpperCase(r.title), r.content>>,
               <<r.title, toUpperCase(r.content)>>,
               <<toLowerCase(r.title), toLowerCase(r.content)>> } }

\* C14: the ranking ignores letter case: a query that differs from the current
\* one in letter case only gives the same list, and a section written in
\* another letter case is included exactly when the section is
C14_CaseInsensitive ==
  Ranked =>
    /\ \A q \in CaseVariants(searchText) :
         filteredSections = computeFilteredSections(sections, q)
    /\ \A i \in 1..Len(sections) : \A r \in Recased(sections[i]) :
         filterSection(r, searchText) <=> sections[i] \in SeqRange(filteredSections)

\* the query "AB" found the section titled "Ab" and left another one out
C14_Witness ==
  /\ Ranked
  /\ searchText = <<"A","B">>
  /\ \E k \in 1..Len(filteredSections) : filteredSections[k].title = <<"A","b">>
  /\ Len(filteredSections) < Len(sections)

----------------------------------------------------------------------------
(* C17 *)

\* C17: ranking leaves the stored sections as they are: whatever queries
\* were ranked since the documents were loaded, sections is still the list
\* that was loaded, and the rendered list is the ranking of that list for the
\* current query alone
C17_RankingLeavesSections ==
  cmdPc = "ready" =>
    LET loaded == parseDocsTextSub(remoteDocs)
    IN  /\ sections = loaded
        /\ filteredSections = computeFilteredSections(loaded, searchText)

\* the text came from the cache, the query was changed at least twice and is
\* empty now: the list is the loaded one, in an order that ranking the
\* argument query does not give
C17_Witness ==
  /\ cmdPc = "ready"
  /\ data = <<>>
  /\ argsQuery # <<>>
  /\ searchText = <<>>
  /\ Len(sections) >= 2
  /\ filteredSections = sections
  /\ sortSections(sections, argsQuery) # sections

----------------------------------------------------------------------------
(* detectType applied to a title and a content *)

MaxWords == 2

\* pieces of content: one for each if statement of detectType(title,
\* content), "style:" and "Style" for the two readings of a style word, and
\* "x" that no test looks for
TypeWords ==
  { <<"$","s","t","a","t","e">>,
    <<"$","h","o","s","t">>,
    <<"b","i","n","d",":">>,
    <<"s","t","y","l","e",":">>,
    <<"{","#","x","}">>,
    <<"{","@","h","t","m","l">>,
    <<"<","s","v","e","l","t","e",":","x",">">>,
    <<"f","r","o","m"," ","$","a","p","p">>,
    <<BQ,"f","u","n","c","t","i","o","n",BQ>>,
    <<"c","o","n","f","i","g">>,
    <<"u","p","g","r","a","d","e">>,
    <<"e","r","r","o","r">>,
    <<"S","t","y","l","e">>,
    <<"t","e","s","t">>,
    <<"g","e","n","e","r","i","c">>,
    <<"s","t","o","r","e">>,
    <<"c","o","n","t","e","x","t">>,
    <<"t","i","c","k">>,
    <<"s","l","o","t">>,
    <<"x">> }

\* pieces of a title for detectType(title)
TitleWords ==
  { <<"$","a","p","p">>,
    <<"I","m","p","o","r","t">>,
    <<"f","e","t","c","h">>,
    <<"C","o","m","p","o","n","e","n","t">>,
    <<"a","d","a","p","t","e","r">>,
    <<"h","o","o","k">>,
    <<"a","1">> }

Phrases(words) ==
  { join(ws, SP) : ws \in UNION { [1..n -> words] : n \in 0..MaxWords } }

TypeContents == Phrases(TypeWords)

TypeTitles == Phrases(TitleWords)

\* the titles that go with a content: detectType(title, content) ignores them
ContentTitles == { <<>>, <<"$","s","t","a","t","e">> }

InitType ==
  /\ \E p \in (TypeTitles \X {<<>>}) \cup (ContentTitles \X TypeContents) :
       /\ typeTitle = p[1]
       /\ typeContent = p[2]
  /\ detectedType = ""
  /\ typePc = "input"
  /\ ParseIdle /\ KwIdle /\ CmdIdle /\ SelIdle

DetectTypeOfContent ==
  /\ typePc = "input"
  /\ detectedType' = detectTypeOfContent(typeTitle, typeContent)
  /\ typePc' = "content"
  /\ UNCHANGED <<typeTitle, typeContent, parseVars, kwVars, cmdVars, selVars>>

DetectTypeOfTitle ==
  /\ typePc = "input"
  /\ detectedType' = detectTypeOfTitle(typeTitle)
  /\ typePc' = "title"
  /\ UNCHANGED <<typeTitle, typeContent, parseVars, kwVars, cmdVars, selVars>>

NextType == DetectTypeOfContent \/ DetectTypeOfTitle

SpecType == InitType /\ [][NextType]_vars

\* DocSection['type'] of the two variants
RichTypes ==
  { "rune", "directive", "block", "element", "module", "api", "concept",
    "config", "migration", "error", "styling", "testing", "typescript",
    "stores", "context", "lifecycle", "legacy" }

SubTypes == { "module", "function", "component", "concept", "config", "hook" }

\* the categories that have a rule, in the order the rules are tried
RuleOrder ==
  << "rune", "directive", "block", "element", "module", "api", "config",
     "migration", "error", "styling", "testing", "typescript", "stores",
     "context", "lifecycle", "legacy" >>

\* the marker condition of a category on the lowercased content
MarkerHolds(type, c) ==
  CASE type = "rune"       -> isRune(c)
    [] type = "directive"  -> isDirective(c)
    [] type = "block"      -> isBlock(c) \/ isBlockTag(c)
    [] type = "element"    -> isElement(c)
    [] type = "module"     -> isModule(c)
    [] type = "api"        -> isApi(c)
    [] type = "config"     -> isConfig(c)
    [] type = "migration"  -> isMigration(c)
    [] type = "error"      -> isError(c)
    [] type = "styling"    -> isStyling(c)
    [] type = "testing"    -> isTesting(c)
    [] type = "typescript" -> isTypescript(c)
    [] type = "stores"     -> isStores(c)
    [] type = "context"    -> isContext(c)
    [] type = "lifecycle"  -> isLifecycle(c)
    [] type = "legacy"     -> isLegacy(c)

\* the indices of the rules whose marker condition holds
RulesHolding(c) == { k \in 1..Len(RuleOrder) : MarkerHolds(RuleOrder[k], c) }

\* some test of detectType(title) holds on the lowercased title
TitleMarkerHolds(lower) ==
  \/ \E m \in { <<"$","a","p","p">>, <<"@","s","v","e","l","t","e","j","s">>, <<"i","m","p","o","r","t">>,
                <<"c","o","m","p","o","n","e","n","t">>, <<"e","l","e","m","e","n","t">>, <<"c","o","n","f","i","g">>,
                <<"a","d","a","p","t","e","r">>, <<"h","o","o","k">> } : IsSubstring(m, lower)
  \/ (Len(lower) > 0 /\ \A i \in 1..Len(lower) : lower[i] \in LowerSet)

\* C11: detectType returns a value for every title and content, the value is
\* one of the categories of DocSection, and it is 'concept' exactly when no
\* rule's marker condition holds (on the lowercased content for
\* detectType(title, content), on the lowercased title for detectType(title))
C11_TotalAndConceptIffNoRule ==
  /\ typePc = "content" =>
       /\ detectedType \in RichTypes
       /\ detectedType = "concept" <=> RulesHolding(toLowerCase(typeContent)) = {}
  /\ typePc = "title" =>
       /\ detectedType \in SubTypes
       /\ detectedType = "concept" <=> ~TitleMarkerHolds(toLowerCase(typeTitle))

\* a content of two pieces that no rule matches came out as 'concept'
C11_Witness ==
  /\ typePc = "content"
  /\ typeContent = <<"x"," ","x">>
  /\ detectedType = "concept"

\* the rune sigil patterns
RuneSigils ==
  { <<"$","s","t","a","t","e">>,
    <<"$","d","e","r","i","v","e","d">>,
    <<"$","e","f","f","e","c","t">>,
    <<"$","p","r","o","p","s">>,
    <<"$","b","i","n","d","a","b","l","e">>,
    <<"$","i","n","s","p","e","c","t">>,
    <<"$","h","o","s","t">> }

StyleWord == <<"s","t","y","l","e">>

\* C12: a content that contains a rune sigil pattern and the word "style" is
\* classified 'rune', neither 'styling' nor 'directive'
C12_RuneBeatsStyle ==
  ( /\ typePc = "content"
    /\ \E m \in RuneSigils : IsSubstring(m, typeContent)
    /\ IsSubstring(StyleWord, typeContent) )
  => /\ detectedType = "rune"
     /\ detectedType \notin { "styling", "directive" }

\* "$state style:" holds a sigil pattern, the word and a directive marker
C12_Witness ==
  /\ typePc = "content"
  /\ typeContent = <<"$","s","t","a","t","e"," ","s","t","y","l","e",":">>
  /\ isDirective(toLowerCase(typeContent))
  /\ isStyling(toLowerCase(typeContent))
  /\ detectedType = "rune"

\* C18: detectType(title, content) is a first-match chain in the order rune,
\* directive, block, element, module, api, config, migration, error, styling,
\* testing, typescript, stores, context, lifecycle, legacy: the category
\* returned is that of the earliest rule whose marker condition holds on the
\* lowercased content, whatever later rules hold too
C18_EarliestRuleDecides ==
  typePc = "content" =>
    LET holding == RulesHolding(toLowerCase(typeContent))
    IN  holding # {} => detectedType = RuleOrder[SetMin(holding)]

\* "Style test" matches the styling rule and the testing rule after it
C18_Witness ==
  /\ typePc = "content"
  /\ typeContent = <<"S","t","y","l","e"," ","t","e","s","t">>
  /\ RulesHolding(toLowerCase(typeContent)) = { 10, 11 }
  /\ detectedType = "styling"

----------------------------------------------------------------------------
(* Command of the fuzzy-search variant: loading, searching and the effect    *)
(* that selects the first result                                             *)

CACHE_DURATION == 3600000

DigitChars == <<"0","1","2","3","4","5","6","7","8","9">>

\* Number.prototype.toString of an integer >= 0
RECURSIVE numberToString(_)
numberToString(n) ==
  IF n < 10 THEN <<DigitChars[n + 1]>>
  ELSE numberToString(n \div 10) \o <<DigitChars[(n % 10) + 1]>>

RECURSIVE parseDigits(_, _, _)
parseDigits(s, i, acc) ==
  IF i > Len(s) \/ s[i] \notin Digits THEN acc
  ELSE parseDigits(s, i + 1,
         acc * 10 + (CHOOSE d \in 0..9 : DigitChars[d + 1] = s[i]))

\* parseInt of a string without sign or leading whitespace: <<n>> for the
\* number its leading digits spell, <<>> (NaN) when it starts with none
parseInt(s) ==
  IF s = <<>> \/ s[1] \notin Digits THEN <<>> ELSE <<parseDigits(s, 1, 0)>>

\* variation: the cache still counts as valid at the instant of its expiry
isCacheValidUntilExpiry(c, e, t) ==
  /\ c # <<>> /\ c[1] # <<>>
  /\ e # <<>> /\ e[1] # <<>>
  /\ parseInt(e[1]) # <<>>
  /\ t <= parseInt(e[1])[1]

\* isCacheValid() at time t, with the entries c and e of the cache (<<>> is
\* undefined); the empty string is falsy, a comparison with NaN is false
isCacheValid(c, e, t) ==
  /\ c # <<>> /\ c[1] # <<>>
  /\ e # <<>> /\ e[1] # <<>>
  /\ parseInt(e[1]) # <<>>
  /\ t < parseInt(e[1])[1]

\* fuse.search(searchText).map(result => result.item): which items Fuse
\* returns and in which order is the library's matter; any arrangement of
\* any of the sections can come back
FuseResults(secs) ==
  { [k \in 1..Len(p) |-> secs[p[k]]] :
      p \in UNION { { f \in [1..n -> 1..Len(secs)] :
                        \A i, j \in 1..n : i # j => f[i] # f[j] } :
                    n \in 0..Len(secs) } }

\* filteredSections of a render
SearchResults(secs, query) ==
  IF query = <<>> THEN {secs} ELSE FuseResults(secs)

\* id={index.toString()} of the k-th rendered item
ItemId(k) == numberToString(k - 1)

MaxShown == 2

\* title and body of the sections of the documents, taken in turn
ShownSections == << << <<"a">>, <<"x">> >>, << <<"b">>, <<"y">> >> >>

\* the documents of 0..MaxShown sections
ShownDocs ==
  { join([i \in 1..n |->
            LET sec == ShownSections[((i - 1) % Len(ShownSections)) + 1]
            IN  <<"#", SP>> \o sec[1] \o <<NL>> \o sec[2]], NL) :
      n \in 0..MaxShown }

\* the texts typed into the search bar
TypedTexts == { <<>>, <<"a">>, <<"b">> }

\* the text an earlier launch left in the cache
StaleDocs == <<"#", SP, "b", NL, "y">>

\* the clock advances in steps of half the cache duration, MaxTicks times
MaxTicks == 2

TickStep == CACHE_DURATION \div 2

\* a value that is defined and, as a string, not empty
Truthy(x) == x # <<>> /\ x[1] # <<>>

\* which text loadDocs parses at time t with the cache entries c and e and
\* the fetched data d: the cached one, the fetched one, or none
loadBranch(c, e, d, t) ==
  IF isCacheValid(c, e, t) THEN "cache"
  ELSE IF Truthy(d) THEN "data"
  ELSE "none"

\* execute: !isCacheValid() of a render with the cache entries c and e at
\* time t
executeOption(c, e, t) == ~isCacheValid(c, e, t)

\* useFetch at a render: the request is sent when the option execute is
\* true and was not at the render before
Render(c, e, t) ==
  /\ execute' = executeOption(c, e, t)
  /\ cmdPc' = IF execute' /\ ~execute THEN "fetching" ELSE cmdPc

\* the cache holds nothing, or one entry without the other, or the text of
\* an earlier launch with an expiry that has passed or with one that lies
\* half an hour ahead
InitCommandMain ==
  /\ remoteDocs \in ShownDocs
  /\ argsQuery \in { <<>>, <<"a">> }
  /\ now = 0
  /\ cache \in { <<>>, <<StaleDocs>> }
  /\ cacheExpiry \in
       { <<>>, <<numberToString(now + TickStep)>> }
         \cup (IF cache = <<>> THEN {} ELSE { <<numberToString(now)>> })
  /\ data = <<>>
  /\ sections = <<>>
  /\ searchText = argsQuery
  /\ isLoading = TRUE
  /\ filteredSections = <<>>
  /\ showDetail = FALSE
  /\ selectedItemId = <<>>
  /\ hasAutoSelected = FALSE
  /\ effectDue = FALSE
  /\ listChanged = "no"
  /\ lastLoad = <<>>
  /\ execute = FALSE
  /\ event = <<>>
  /\ cmdPc = "mounting"
  /\ ParseIdle /\ KwIdle /\ TypeIdle

\* Date.now() moves on; no time passes between a render and its effects
Tick ==
  /\ cmdPc # "idle"
  /\ ~effectDue
  /\ now < MaxTicks * TickStep
  /\ now' = now + TickStep
  /\ event' = <<>>
  /\ UNCHANGED <<cmdVars, cacheExpiry, showDetail, selectedItemId,
                 hasAutoSelected, effectDue, listChanged, lastLoad, execute,
                 parseVars, kwVars, typeVars>>

\* the first render and its effects: loadDocs parses the cached text when the
\* cache is valid, otherwise useFetch (execute: !isCacheValid()) is under
\* way; the auto-select effect finds the empty list and changes nothing. The
\* effect is to run again when a later render has a new filteredSections.
MountMain ==
  /\ cmdPc = "mounting"
  /\ LET valid == loadBranch(cache, cacheExpiry, data, now) = "cache"
         secs  == IF valid THEN parseDocsTextMain(cache[1]) ELSE sections
     IN  /\ sections' = secs
         /\ filteredSections' \in SearchResults(secs, searchText)
         /\ execute' = executeOption(cache, cacheExpiry, now)
         /\ cmdPc' = IF execute' THEN "fetching" ELSE "ready"
         /\ effectDue' = (valid \/ searchText # <<>>)
         /\ listChanged' = IF valid THEN "load" ELSE listChanged
         /\ lastLoad' = IF valid THEN <<"cache", now, cache, cacheExpiry>>
                        ELSE lastLoad
  /\ isLoading' = FALSE
  /\ event' = <<>>
  /\ UNCHANGED <<remoteDocs, argsQuery, data, cache, searchText, cacheExpiry,
                 now, showDetail, selectedItemId, hasAutoSelected,
                 parseVars, kwVars, typeVars>>

\* useFetch delivers the text; loadDocs runs again when data is a new value
\* (the effect depends on [data]): the text is cached with its expiry and
\* parsed; an empty text is falsy and loads nothing
FetchDoneMain ==
  /\ cmdPc = "fetching"
  /\ ~effectDue
  /\ data' = <<remoteDocs>>
  /\ LET branch == IF data' = data THEN "none"
                   ELSE loadBranch(cache, cacheExpiry, data', now)
         loaded == branch # "none"
     IN  /\ cache' = IF branch = "data" THEN data' ELSE cache
         /\ cacheExpiry' = IF branch = "data"
                             THEN <<numberToString(now + CACHE_DURATION)>>
                             ELSE cacheExpiry
         /\ sections' = IF branch = "cache" THEN parseDocsTextMain(cache[1])
                        ELSE IF branch = "data" THEN parseDocsTextMain(data'[1])
                        ELSE sections
         /\ filteredSections' \in
              IF loaded THEN SearchResults(sections', searchText)
              ELSE {filteredSections}
         /\ effectDue' = (loaded \/ searchText # <<>>)
         /\ listChanged' = IF ~loaded THEN listChanged
                           ELSE IF lastLoad = <<>> THEN "load" ELSE "reload"
         /\ lastLoad' = IF loaded THEN <<branch, now, cache, cacheExpiry>>
                        ELSE lastLoad
  /\ isLoading' = FALSE
  /\ execute' = executeOption(cache', cacheExpiry', now)
  /\ cmdPc' = "ready"
  /\ event' = <<>>
  /\ UNCHANGED <<remoteDocs, argsQuery, searchText, now, showDetail,
                 selectedItemId, hasAutoSelected, parseVars, kwVars, typeVars>>

\* the test at the head of onSearchTextChange: the event is dropped
keepsInitialQuery(t) ==
  argsQuery # <<>> /\ t = <<>> /\ searchText = argsQuery

\* variation: onSearchTextChange without setHasAutoSelected(false)
SearchTextChangeMainKeepsFlag(t) ==
  /\ cmdPc \in {"fetching", "ready"}
  /\ ~effectDue
  /\ event' = <<"search", t>>
  /\ IF keepsInitialQuery(t)
       THEN UNCHANGED <<searchText, hasAutoSelected, filteredSections,
                        effectDue, listChanged, cmdPc, execute>>
       ELSE /\ searchText' = t
            /\ UNCHANGED hasAutoSelected
            /\ filteredSections' \in
                 IF t = searchText THEN {filteredSections}
                 ELSE SearchResults(sections, t)
            /\ effectDue' = (t # searchText)
            /\ listChanged' = "search"
            /\ IF t # searchText
                 THEN Render(cache, cacheExpiry, now)
                 ELSE UNCHANGED <<cmdPc, execute>>
  /\ UNCHANGED <<remoteDocs, argsQuery, data, cache, sections, isLoading,
                 cacheExpiry, now, showDetail, selectedItemId, lastLoad,
                 parseVars, kwVars, typeVars>>

\* variation: onSearchTextChange without the test at its head
SearchTextChangeMainNoGuard(t) ==
  /\ cmdPc \in {"fetching", "ready"}
  /\ ~effectDue
  /\ event' = <<"search", t>>
  /\ searchText' = t
  /\ hasAutoSelected' = FALSE
  /\ filteredSections' \in
       IF t = searchText THEN {filteredSections}
       ELSE SearchResults(sections, t)
  /\ effectDue' = (t # searchText \/ hasAutoSelected)
  /\ listChanged' = "search"
  /\ IF t # searchText \/ hasAutoSelected
       THEN Render(cache, cacheExpiry, now)
       ELSE UNCHANGED <<cmdPc, execute>>
  /\ UNCHANGED <<remoteDocs, argsQuery, data, cache, sections, isLoading,
                 cacheExpiry, now, showDetail, selectedItemId, lastLoad,
                 parseVars, kwVars, typeVars>>

\* onSearchTextChange and the render that follows: an event the test at its
\* head drops sets nothing; nothing is rendered anew when neither state
\* changes; the same text gives the same list
SearchTextChangeMain(t) ==
  /\ cmdPc \in {"fetching", "ready"}
  /\ ~effectDue
  /\ event' = <<"search", t>>
  /\ IF keepsInitialQuery(t)
       THEN UNCHANGED <<searchText, hasAutoSelected, filteredSections,
                        effectDue, listChanged, cmdPc, execute>>
       ELSE /\ searchText' = t
            /\ hasAutoSelected' = FALSE
            /\ filteredSections' \in
                 IF t = searchText THEN {filteredSections}
                 ELSE SearchResults(sections, t)
            /\ effectDue' = (t # searchText \/ hasAutoSelected)
            /\ listChanged' = "search"
            /\ IF t # searchText \/ hasAutoSelected
                 THEN Render(cache, cacheExpiry, now)
                 ELSE UNCHANGED <<cmdPc, execute>>
  /\ UNCHANGED <<remoteDocs, argsQuery, data, cache, sections, isLoading,
                 cacheExpiry, now, showDetail, selectedItemId, lastLoad,
                 parseVars, kwVars, typeVars>>

\* the effect with the dependencies [filteredSections, hasAutoSelected]; it
\* runs before anything else is rendered. What it sets is rendered, and it
\* is due once more when hasAutoSelected changed or the new render has a new
\* array (fuse.search returns one at every render)
AutoSelect ==
  /\ effectDue
  /\ IF filteredSections # <<>> /\ ~hasAutoSelected
       THEN /\ selectedItemId' = <<"0">>
            /\ showDetail' = TRUE
            /\ hasAutoSelected' = TRUE
       ELSE IF filteredSections = <<>>
         THEN /\ selectedItemId' = <<>>
              /\ hasAutoSelected' = FALSE
              /\ UNCHANGED showDetail
         ELSE UNCHANGED <<selectedItemId, showDetail, hasAutoSelected>>
  /\ effectDue' =
       \/ hasAutoSelected' # hasAutoSelected
       \/ /\ searchText # <<>>
          /\ (selectedItemId' # selectedItemId \/ showDetail' # showDetail)
  /\ IF \/ hasAutoSelected' # hasAutoSelected
        \/ selectedItemId' # selectedItemId
        \/ showDetail' # showDetail
       THEN Render(cache, cacheExpiry, now)
       ELSE UNCHANGED <<cmdPc, execute>>
  /\ listChanged' = "no"
  /\ event' = <<>>
  /\ UNCHANGED <<remoteDocs, argsQuery, data, cache, sections, searchText,
                 isLoading, filteredSections, cacheExpiry, now, lastLoad,
                 parseVars, kwVars, typeVars>>

\* onSelectionChange: the id of a rendered item, or null
SelectionChange(id) ==
  /\ cmdPc \in {"fetching", "ready"}
  /\ ~effectDue
  /\ selectedItemId' = id
  /\ effectDue' = (id # selectedItemId /\ searchText # <<>>)
  /\ IF id # selectedItemId
       THEN Render(cache, cacheExpiry, now)
       ELSE UNCHANGED <<cmdPc, execute>>
  /\ event' = <<>>
  /\ UNCHANGED <<remoteDocs, argsQuery, data, cache, sections, searchText,
                 isLoading, filteredSections, cacheExpiry, now, showDetail,
                 hasAutoSelected, listChanged, lastLoad,
                 parseVars, kwVars, typeVars>>

\* the action 'Show Detail' / 'Hide Detail' of a rendered item
ToggleDetail ==
  /\ cmdPc \in {"fetching", "ready"}
  /\ ~effectDue
  /\ filteredSections # <<>>
  /\ showDetail' = ~showDetail
  /\ effectDue' = (searchText # <<>>)
  /\ Render(cache, cacheExpiry, now)
  /\ event' = <<>>
  /\ UNCHANGED <<remoteDocs, argsQuery, data, cache, sections, searchText,
                 isLoading, filteredSections, cacheExpiry, now, selectedItemId,
                 hasAutoSelected, listChanged, lastLoad,
                 parseVars, kwVars, typeVars>>

\* the action 'Refresh Docs' of a rendered item: both entries are removed;
\* window is not defined in the extension's runtime, so the reload that
\* follows throws and no state is set
RefreshDocs ==
  /\ cmdPc \in {"fetching", "ready"}
  /\ ~effectDue
  /\ filteredSections # <<>>
  /\ cache' = <<>>
  /\ cacheExpiry' = <<>>
  /\ event' = <<"refresh">>
  /\ UNCHANGED <<remoteDocs, argsQuery, data, sections, searchText, isLoading,
                 filteredSections, cmdPc, now, showDetail, selectedItemId,
                 hasAutoSelected, effectDue, listChanged, lastLoad, execute,
                 parseVars, kwVars, typeVars>>

NextCommandMain ==
  \/ MountMain
  \/ Tick
  \/ FetchDoneMain
  \/ \E t \in TypedTexts : SearchTextChangeMain(t)
  \/ AutoSelect
  \/ \E k \in 0..Len(filteredSections) :
       SelectionChange(IF k = 0 THEN <<>> ELSE ItemId(k))
  \/ ToggleDetail
  \/ RefreshDocs

SpecCommandMain == InitCommandMain /\ [][NextCommandMain]_vars

\* React runs an effect that is due
SpecCommandMainFair == SpecCommandMain /\ WF_vars(AutoSelect)

BeforeExpiry(blob, expiry, at) ==
  /\ blob # <<>>
  /\ expiry # <<>>
  /\ parseInt(expiry[1]) # <<>>
  /\ at < parseInt(expiry[1])[1]

\* what the last loadDocs that parsed a text saw and did: a text is taken
\* from the cache only before its expiry; otherwise the request was enabled
\* and the fetched text is parsed and cached, to expire an hour later (a
\* later 'Refresh Docs' may have removed the entries)
LoadedAsCacheAllows ==
  /\ (cmdPc \notin {"idle", "mounting"} /\ lastLoad = <<>>)
       => (cmdPc = "fetching" \/ data # <<>>)
  /\ lastLoad # <<>> =>
       LET from == lastLoad[1]
           at   == lastLoad[2]
           blob == lastLoad[3]
           exp  == lastLoad[4]
       IN  /\ from = "cache" =>
                 /\ BeforeExpiry(blob, exp, at)
                 /\ sections = parseDocsTextMain(blob[1])
           /\ from = "data" =>
                 /\ ~BeforeExpiry(blob, exp, at)
                 /\ data # <<>>
                 /\ sections = parseDocsTextMain(data[1])
                 /\ \/ cache = <<>> /\ cacheExpiry = <<>>
                    \/ /\ cache = data
                       /\ cacheExpiry # <<>>
                       /\ parseInt(cacheExpiry[1]) = <<at + CACHE_DURATION>>

\* 'Refresh Docs' leaves neither entry
RefreshRemovesBoth ==
  event = <<"refresh">> => (cache = <<>> /\ cacheExpiry = <<>>)

\* C21 as stated: the list is built from the cached text only while both
\* entries exist and the time is before the expiry; otherwise the request is
\* enabled and whatever text it delivers is parsed and cached with an expiry
\* one hour ahead; 'Refresh Docs' removes both entries
C21_CacheUsedOnlyBeforeExpiry ==
  /\ LoadedAsCacheAllows
  /\ RefreshRemovesBoth
  /\ data # <<>> => (lastLoad # <<>> /\ lastLoad[1] = "data")

\* C21: the same, for a delivered text that is not empty: an empty text is
\* neither parsed nor cached
C21_CacheUsedOnlyBeforeExpiryNonEmptyData ==
  /\ LoadedAsCacheAllows
  /\ RefreshRemovesBoth
  /\ Truthy(data) => (lastLoad # <<>> /\ lastLoad[1] = "data")
  /\ (data # <<>> /\ ~Truthy(data)) => (lastLoad = <<>> \/ lastLoad[1] = "cache")

\* the command was launched at the very instant the cached text expired:
\* the fetched text was loaded and cached in its place, to expire an hour
\* after that instant
C21_Witness ==
  /\ cmdPc = "ready"
  /\ lastLoad # <<>>
  /\ lastLoad[1] = "data"
  /\ lastLoad[3] = <<StaleDocs>>
  /\ lastLoad[4] = <<numberToString(TickStep)>>
  /\ lastLoad[2] = TickStep
  /\ cache = <<remoteDocs>>
  /\ cacheExpiry = <<numberToString(TickStep + CACHE_DURATION)>>
  /\ sections = parseDocsTextMain(remoteDocs)
  /\ sections # <<>>

\* C22: a search-text event with the empty text that arrives while the
\* search text is the non-empty initial query changes neither the search
\* text nor hasAutoSelected; every other search-text event makes its text
\* the search text; so no step empties a search text that is the initial
\* query
C22_InitialQueryGuard ==
  [][ /\ (event' # <<>> /\ event'[1] = "search") =>
           IF argsQuery # <<>> /\ event'[2] = <<>> /\ searchText = argsQuery
             THEN searchText' = searchText /\ hasAutoSelected' = hasAutoSelected
             ELSE searchText' = event'[2]
      /\ (searchText # <<>> /\ searchText' = <<>>) => searchText # argsQuery
    ]_vars

\* the command was launched with a query, its first result was selected,
\* and an event with the empty text has just been dropped: the query and
\* the flag are as they were
C22_Witness ==
  /\ cmdPc = "ready"
  /\ argsQuery # <<>>
  /\ event = <<"search", <<>>>>
  /\ searchText = argsQuery
  /\ filteredSections # <<>>
  /\ hasAutoSelected
  /\ selectedItemId = <<"0">>

====
